---- MODULE Spec2Model ----
(***************************************************************************)
(* A model of the MotoGP standings service (src/standings.py): the color   *)
(* resolver, the session aggregator, the standings assembler and the       *)
(* cache manager with its rebuild, load and lookup paths.                  *)
(*                                                                         *)
(* Encoding of Python values:                                              *)
(*   - a dict whose key order matters (a classification entry, whose       *)
(*     str() is scanned for a hex literal) is a sequence of <<key, value>> *)
(*     pairs in insertion order; other dicts are TLA+ functions whose      *)
(*     DOMAIN is the set of keys present;                                  *)
(*   - a style string is the sequence of its CSS declarations;             *)
(*   - the default "" that rd.get("position", "") yields for a missing     *)
(*     position is the integer NoPosition, since TLC compares integers     *)
(*     with integers only.                                                 *)
(***************************************************************************)
EXTENDS Integers, Sequences, FiniteSets, TLC

VARIABLES
    \* ---- color resolver (extract_rider_color) ----
    rider_info,        \* the classification entry handed to the resolver
    color_out,         \* the resolver's return value ("" before the call)
    color_pc,          \* "call" | "done" | "off"
    \* ---- standings assembler (get_full_standings) ----
    standings,         \* raw["classification"]: the base standings entries
    rider_map,         \* the aggregator's result handed to the assembler
    results,           \* the rows get_full_standings returns
    asm_pc,            \* "call" | "done" | "off"
    \* ---- session aggregator (calculate_points_and_team_colors) ----
    sessions,          \* the session list handed to the aggregator
    fetched,           \* fetched[i]: how the classification fetch of sessions[i] ends
    processed,         \* indices of sessions, in the order as_completed yields them
    rider_dict,        \* the aggregate mapping being built
    agg_pc,            \* "run" | "done" | "off"
    \* ---- cache manager ----
    standings_cache,   \* the global mapping "season__category" -> rows
    redis_doc,         \* the document under CACHE_KEY in the external store
    file_doc,          \* standings_cache.json
    events_cfg,        \* upstream: what the events endpoint holds for each season
    pc,                \* pc[t]: where thread t stands
    loc,               \* loc[t]: the locals of thread t's precompute_standings
    response,          \* what the last api_standings call returned
    warm,              \* history: the mapping as the last completed load or rebuild left it
    \* ---- cache keys (precompute_standings writes them, api_seasons splits them) ----
    key_ids,           \* <<season_id, cat_id>>, each a sequence of characters
    key_parts,         \* key.split("__") of the key built from key_ids
    key_pc             \* "call" | "done" | "off"

color_vars == <<rider_info, color_out, color_pc>>
asm_vars == <<standings, rider_map, results, asm_pc>>
agg_vars == <<sessions, fetched, processed, rider_dict, agg_pc>>

cache_vars == <<standings_cache, redis_doc, file_doc, events_cfg, pc, loc, response, warm>>
key_vars == <<key_ids, key_parts, key_pc>>

vars == <<rider_info, color_out, color_pc, standings, rider_map, results, asm_pc,
          sessions, fetched, processed, rider_dict, agg_pc,
          standings_cache, redis_doc, file_doc, events_cfg, pc, loc, response, warm,
          key_ids, key_parts, key_pc>>

(***************************************************************************)
(* Python dict helpers                                                     *)
(***************************************************************************)
\* d.get(k, default) on an ordered dict (a sequence of <<key, value>> pairs)
OGet(d, k, default) ==
    IF \E i \in 1..Len(d) : d[i][1] = k
    THEN d[CHOOSE i \in 1..Len(d) : d[i][1] = k][2]
    ELSE default

\* the empty dict {}
EmptyDict == [k \in {} |-> ""]

\* the empty standings mapping
EmptyCache == [k \in {} |-> <<>>]

\* d.get(k, default) on a dict modelled as a function
Get(d, k, default) == IF k \in DOMAIN d THEN d[k] ELSE default

(***************************************************************************)
(* Color tokens and style declarations                                     *)
(***************************************************************************)
Hex(h) == [kind |-> "hex", hex |-> h, r |-> 0, g |-> 0, b |-> 0]
Rgb(r, g, b) == [kind |-> "rgb", hex |-> "", r |-> r, g |-> g, b |-> b]
Named(n) == [kind |-> "name", hex |-> n, r |-> 0, g |-> 0, b |-> 0]

\* one declaration "prop: [<n>px solid] <color>" of a style string
Decl(prop, px, col) == [prop |-> prop, px |-> px, col |-> col]

\* the leftmost match of re.search: the least index in S, 0 if S is empty
FirstMatch(S) ==
    IF S = {} THEN 0 ELSE CHOOSE i \in S : \A j \in S : i <= j

\* f"rgb({r_val},{g_val},{b_val})"
FormatRgb(col) ==
    "rgb(" \o ToString(col.r) \o "," \o ToString(col.g) \o "," \o ToString(col.b) \o ")"

\* re.IGNORECASE on a property name: only the rgb(...) patterns carry the flag,
\* the #RRGGBB patterns match the lower-case name alone
IgnoreCase(prop) ==
    CASE prop = "BORDER-LEFT" -> "border-left"
      [] prop = "BACKGROUND-COLOR" -> "background-color"
      [] OTHER -> prop

\* src/standings.py extract_border_left
extract_border_left(style_str) ==
    LET IsHex(d) == d.prop = "border-left" /\ d.px /\ d.col.kind = "hex"
        IsRgb(d) == IgnoreCase(d.prop) = "border-left" /\ d.px /\ d.col.kind = "rgb"
        match_hex == FirstMatch({i \in 1..Len(style_str) : IsHex(style_str[i])})
        match_rgb == FirstMatch({i \in 1..Len(style_str) : IsRgb(style_str[i])})
    IN  IF match_hex # 0 THEN style_str[match_hex].col.hex
        ELSE IF match_rgb # 0 THEN FormatRgb(style_str[match_rgb].col)
        ELSE ""

\* src/standings.py extract_background_color
extract_background_color(style_str) ==
    LET IsHex(d) == d.prop = "background-color" /\ ~d.px /\ d.col.kind = "hex"
        IsRgb(d) == IgnoreCase(d.prop) = "background-color" /\ ~d.px /\ d.col.kind = "rgb"
        match_hex == FirstMatch({i \in 1..Len(style_str) : IsHex(style_str[i])})
        match_rgb == FirstMatch({i \in 1..Len(style_str) : IsRgb(style_str[i])})
    IN  IF match_hex # 0 THEN style_str[match_hex].col.hex
        ELSE IF match_rgb # 0 THEN FormatRgb(style_str[match_rgb].col)
        ELSE ""

\* The #RRGGBB literals of one value of the entry, in textual order.
IsHexLiteral(s) == s \in {"#AA0000", "#BB0000", "#CC0000", "#00FF00", "#FFFF00",
                          "#123456", "#ABCDEF", "#AA00AA"}

HexesOfStyle(style_str) ==
    LET hexDecl(d) == d.col.kind = "hex"
        picked == SelectSeq(style_str, hexDecl)
    IN  [i \in 1..Len(picked) |-> picked[i].col.hex]

HexesOfPair(p) ==
    CASE p[1] = "style" -> HexesOfStyle(p[2])
      [] p[1] = "team" ->
            IF "color" \in DOMAIN p[2] /\ IsHexLiteral(p[2].color)
            THEN <<p[2].color>> ELSE <<>>
      [] p[1] \in {"team_color", "rider_color"} ->
            IF IsHexLiteral(p[2]) THEN <<p[2]>> ELSE <<>>
      [] OTHER -> <<>>

RECURSIVE HexesOfText(_)
HexesOfText(d) ==
    IF d = <<>> THEN <<>> ELSE HexesOfPair(Head(d)) \o HexesOfText(Tail(d))

\* src/standings.py extract_hex_anywhere, applied to str(rider_info)
extract_hex_anywhere(d) ==
    LET found == HexesOfText(d) IN IF found # <<>> THEN found[1] ELSE ""

\* Python truthiness of a string-valued d.get(k): None and "" are falsy
Truthy(s) == s # ""

\* src/standings.py extract_rider_color
extract_rider_color(info) ==
    LET team_color == OGet(info, "team_color", "")
        rider_color == OGet(info, "rider_color", "")
        color == IF Truthy(team_color) THEN team_color ELSE rider_color
        style_str == OGet(info, "style", <<>>)
        c_border == extract_border_left(style_str)
        c_bg == extract_background_color(style_str)
        c_hex == extract_hex_anywhere(info)
    IN  IF Truthy(color) THEN color
        ELSE IF style_str # <<>> /\ c_border # "" THEN c_border
        ELSE IF style_str # <<>> /\ c_bg # "" THEN c_bg
        ELSE IF c_hex # "" THEN c_hex
        ELSE "#ddd"

(***************************************************************************)
(* Session aggregator                                                      *)
(***************************************************************************)
\* s.upper() on the session types of the model
Upper(t) ==
    CASE t = "rac" -> "RAC" [] t = "spr" -> "SPR" [] t = "fp1" -> "FP1" [] OTHER -> t

\* s.get("type", "").upper() in ["SPR", "RAC"]
IsScoring(session) == Upper(Get(session, "type", "")) \in {"SPR", "RAC"}

\* fetch_sessions: the SPR and RAC sessions of the upstream list
fetch_sessions(data) == SelectSeq(data, IsScoring)

\* mutant: the first color seen for a rider is kept
FoldEntry_FirstColorWins(rd, session_type, info) ==
    LET rid == OGet(info, "rider", EmptyDict).id
        cur == IF rid \in DOMAIN rd THEN rd[rid]
               ELSE [SPR |-> 0, RAC |-> 0, team_color |-> ""]
        pts == OGet(info, "points", 0)
        added == IF session_type = "SPR"
                 THEN [cur EXCEPT !.SPR = @ + pts]
                 ELSE [cur EXCEPT !.RAC = @ + pts]
        new == IF cur.team_color # "" THEN added
               ELSE [added EXCEPT !.team_color = extract_rider_color(info)]
    IN  [r \in DOMAIN rd \cup {rid} |-> IF r = rid THEN new ELSE rd[r]]

\* mutant: the points of an entry replace the rider's sum instead of adding
\* to it
FoldEntry_LastPointsWin(rd, session_type, info) ==
    LET rid == OGet(info, "rider", EmptyDict).id
        cur == IF rid \in DOMAIN rd THEN rd[rid]
               ELSE [SPR |-> 0, RAC |-> 0, team_color |-> ""]
        pts == OGet(info, "points", 0)
        added == IF session_type = "SPR"
                 THEN [cur EXCEPT !.SPR = pts]
                 ELSE [cur EXCEPT !.RAC = pts]
        new == [added EXCEPT !.team_color = extract_rider_color(info)]
    IN  [r \in DOMAIN rd \cup {rid} |-> IF r = rid THEN new ELSE rd[r]]

\* mutant: sprint points are added to the race points
FoldEntry_SprintAsRace(rd, session_type, info) ==
    LET rid == OGet(info, "rider", EmptyDict).id
        cur == IF rid \in DOMAIN rd THEN rd[rid]
               ELSE [SPR |-> 0, RAC |-> 0, team_color |-> ""]
        pts == OGet(info, "points", 0)
        added == [cur EXCEPT !.RAC = @ + pts]
        new == [added EXCEPT !.team_color = extract_rider_color(info)]
    IN  [r \in DOMAIN rd \cup {rid} |-> IF r = rid THEN new ELSE rd[r]]

\* the body of "for rider_info in data['classification']" for one entry
FoldEntry(rd, session_type, info) ==
    LET rid == OGet(info, "rider", EmptyDict).id
        cur == IF rid \in DOMAIN rd THEN rd[rid]
               ELSE [SPR |-> 0, RAC |-> 0, team_color |-> ""]
        pts == OGet(info, "points", 0)
        added == IF session_type = "SPR"
                 THEN [cur EXCEPT !.SPR = @ + pts]
                 ELSE [cur EXCEPT !.RAC = @ + pts]
        new == [added EXCEPT !.team_color = extract_rider_color(info)]
    IN  [r \in DOMAIN rd \cup {rid} |-> IF r = rid THEN new ELSE rd[r]]

RECURSIVE FoldClassification(_, _, _)
FoldClassification(rd, session_type, classification) ==
    IF classification = <<>> THEN rd
    ELSE FoldClassification(FoldEntry(rd, session_type, Head(classification)),
                            session_type, Tail(classification))

\* mutant: the session type is not re-checked, so any session that is not a
\* sprint counts as a race
ApplySession_NoTypeCheck(rd, session, outcome) ==
    IF outcome.kind = "raise" THEN rd
    ELSE IF "classification" \notin DOMAIN outcome.data THEN rd
    ELSE FoldClassification(rd, Upper(Get(session, "type", "")),
                            outcome.data.classification)

\* one iteration of "for fut in as_completed(futmap)": outcome is how the
\* fetch of the session's classification ended
ApplySession(rd, session, outcome) ==
    IF outcome.kind = "raise" THEN rd
    ELSE IF "classification" \notin DOMAIN outcome.data THEN rd
    ELSE IF Upper(Get(session, "type", "")) \notin {"SPR", "RAC"} THEN rd
    ELSE FoldClassification(rd, Upper(Get(session, "type", "")),
                            outcome.data.classification)

\* the fold of a fetched classification raises: rider_info["rider"] is a
\* KeyError on an entry without a rider, outside the try of the loop
FoldRaises(session, outcome) ==
    /\ outcome.kind = "ok"
    /\ "classification" \in DOMAIN outcome.data
    /\ IsScoring(session)
    /\ \E j \in 1..Len(outcome.data.classification) :
          \A k \in 1..Len(outcome.data.classification[j]) :
              outcome.data.classification[j][k][1] # "rider"

\* calculate_points_and_team_colors(sess) when the fetch of sess[i] ends as
\* outs[i] and as_completed yields the futures in the order idxs
RECURSIVE RunAggregator(_, _, _)
RunAggregator(sess, outs, idxs) ==
    IF idxs = <<>> THEN [r \in {} |-> EmptyDict]
    ELSE LET i == idxs[Len(idxs)]
         IN  ApplySession(RunAggregator(sess, outs, SubSeq(idxs, 1, Len(idxs) - 1)),
                          sess[i], outs[i])

(***************************************************************************)
(* Standings assembler                                                     *)
(***************************************************************************)
\* the "" that rd.get("position", "") yields when the position is missing
NoPosition == 0 - 1

\* the "" that replaces a missing rider number
NoNumber == 0 - 1

\* (name + " " + surname).strip()
JoinName(name, surname) ==
    IF name = "" THEN surname
    ELSE IF surname = "" THEN name
    ELSE name \o " " \o surname

\* iso.lower() on the ISO codes of the model
Lower(iso) ==
    CASE iso = "ES" -> "es" [] iso = "IT" -> "it" [] iso = "FR" -> "fr" [] OTHER -> iso

\* standings[0].get("points", 0) if standings[0].get("points") else 0
LeaderPoints(stnd) ==
    IF Get(stnd[1], "points", 0) # 0 THEN Get(stnd[1], "points", 0) ELSE 0

\* mutant: ties with the leader print as "-0"
DefGap_TieAsMinusZero(pos, leader_points, pts) ==
    IF pos # 1
    THEN LET gap == leader_points - pts
         IN  IF gap >= 0 THEN "-" \o ToString(gap) ELSE "0"
    ELSE ""

\* mutant: the blank goes to whoever has the leader's points, not to position 1
DefGap_BlankOnLeaderPoints(pos, leader_points, pts) ==
    LET gap == leader_points - pts
    IN  IF gap > 0 THEN "-" \o ToString(gap)
        ELSE IF gap = 0 THEN "" ELSE "0"

\* def_gap of one entry
DefGap(pos, leader_points, pts) ==
    IF pos # 1
    THEN LET gap == leader_points - pts
         IN  IF gap > 0 THEN "-" \o ToString(gap) ELSE "0"
    ELSE ""

\* mutant: the team's own color is preferred to the aggregate's
FinalColor_TeamFirst(rmap, rid, fallback_color) ==
    LET c == IF Truthy(fallback_color) THEN fallback_color
             ELSE Get(Get(rmap, rid, EmptyDict), "team_color", "")
    IN  IF Truthy(c) THEN c ELSE "#ddd"

\* final_color of one entry
FinalColor(rmap, rid, fallback_color) ==
    LET c == Get(Get(rmap, rid, EmptyDict), "team_color", fallback_color)
    IN  IF Truthy(c) THEN c ELSE "#ddd"

\* one iteration of the loop "for rd in standings" of get_full_standings
BuildRow(rd, leader_points, rmap) ==
    LET rider == rd.rider
        full_name == IF Truthy(Get(rider, "full_name", ""))
                     THEN Get(rider, "full_name", "")
                     ELSE JoinName(Get(rider, "name", ""), Get(rider, "surname", ""))
        pos == Get(rd, "position", NoPosition)
        pts == Get(rd, "points", 0)
        \* rider.get("id", 0): the ids of the model are strings
        rid == Get(rider, "id", "0")
        team_data == Get(rd, "team", EmptyDict)
        fallback_color == Get(team_data, "color", "")
        number == Get(rider, "number", 0)
        iso == Get(Get(rider, "country", EmptyDict), "iso", "")
    IN  [ P |-> pos,
          Rider |-> full_name,
          Num |-> IF number = 0 THEN NoNumber ELSE number,
          Points |-> pts,
          Def |-> DefGap(pos, leader_points, pts),
          RAC |-> Get(Get(rmap, rid, EmptyDict), "RAC", 0),
          SPR |-> Get(Get(rmap, rid, EmptyDict), "SPR", 0),
          Country |-> IF iso # ""
                      THEN "https://flagicons.lipis.dev/flags/4x3/" \o Lower(iso) \o ".svg"
                      ELSE "https://flagicons.lipis.dev/flags/4x3/xx.svg",
          Team |-> Get(team_data, "name", ""),
          Bike |-> Get(Get(rd, "constructor", EmptyDict), "name", "N/A"),
          TeamColor |-> FinalColor(rmap, rid, fallback_color) ]

\* mutant: riders without aggregates are left out
AssembleRows_OnlyScored(stnd, rmap) ==
    LET scored(rd) == rd.rider.id \in DOMAIN rmap
        kept == IF DOMAIN rmap = {} THEN stnd ELSE SelectSeq(stnd, scored)
    IN  IF kept = <<>> THEN <<>>
        ELSE [i \in 1..Len(kept) |-> BuildRow(kept[i], LeaderPoints(stnd), rmap)]

\* the rows get_full_standings builds from the base standings and the
\* aggregator's rider_map
AssembleRows(stnd, rmap) ==
    IF stnd = <<>> THEN <<>>
    ELSE [i \in 1..Len(stnd) |-> BuildRow(stnd[i], LeaderPoints(stnd), rmap)]

(***************************************************************************)
(* Inputs of the color resolver                                            *)
(***************************************************************************)
Decls ==
    { Decl("border-left", TRUE, Hex("#00FF00")),
      Decl("border-left", TRUE, Rgb(0, 0, 255)),
      Decl("border-left", FALSE, Hex("#ABCDEF")),
      Decl("BORDER-LEFT", TRUE, Hex("#AA00AA")),
      Decl("BORDER-LEFT", TRUE, Rgb(0, 128, 0)),
      Decl("BACKGROUND-COLOR", FALSE, Rgb(9, 9, 9)),
      Decl("background-color", FALSE, Hex("#FFFF00")),
      Decl("background-color", FALSE, Rgb(255, 0, 0)),
      Decl("color", FALSE, Hex("#123456")),
      Decl("color", FALSE, Named("red")) }

Styles == {<<>>} \cup {<<d>> : d \in Decls} \cup {<<d, e>> : d, e \in Decls}

\* each option is a sequence of zero or one <<key, value>> pairs
TeamColorOpts == {<<>>, << <<"team_color", "">> >>, << <<"team_color", "#AA0000">> >>}
RiderColorOpts == {<<>>, << <<"rider_color", "#BB0000">> >>}
TeamOpts == {<<>>, << <<"team", [name |-> "T1"]>> >>,
             << <<"team", [name |-> "T1", color |-> ""]>> >>,
             << <<"team", [name |-> "T1", color |-> "#CC0000"]>> >>}
StyleOpts == {<<>>} \cup {<< <<"style", s>> >> : s \in Styles}

RiderInfos ==
    { << <<"rider", [id |-> "r1"]>>, <<"points", 25>> >> \o tc \o rc \o
        (IF teamFirst THEN tm \o st ELSE st \o tm) :
        tc \in TeamColorOpts, rc \in RiderColorOpts, tm \in TeamOpts,
        st \in StyleOpts, teamFirst \in BOOLEAN }

(***************************************************************************)
(* Inputs of the standings assembler                                       *)
(***************************************************************************)
MaxRows == 2

BoundedSeq(S, n) == UNION {[1..k -> S] : k \in 0..n}

RiderIds == {"r1", "r2", "r3"}

RiderOf(r) ==
    CASE r = "r1" -> [id |-> "r1", full_name |-> "Marc Marquez", number |-> 93,
                      country |-> [iso |-> "ES"]]
      [] r = "r2" -> [id |-> "r2", name |-> "Pecco", surname |-> "Bagnaia",
                      number |-> 1, country |-> [iso |-> "IT"]]
      [] OTHER    -> [id |-> "r3", full_name |-> "", name |-> "Wild", surname |-> "",
                      country |-> [name |-> "France"]]

\* r1 rides for a team with a color, r2 for a team without one, and r3's
\* entry has no team and no constructor
BaseEntry(r) ==
    CASE r = "r1" -> [rider |-> RiderOf(r),
                      team |-> [name |-> "Ducati Lenovo", color |-> "#CC0000"],
                      constructor |-> [name |-> "Ducati"]]
      [] r = "r2" -> [rider |-> RiderOf(r), team |-> [name |-> "VR46"],
                      constructor |-> [name |-> "Ducati"]]
      [] OTHER    -> [rider |-> RiderOf(r)]

PositionOpts == {EmptyDict, "position" :> 1, "position" :> 2}
PointsOpts == {EmptyDict, "points" :> 20, "points" :> 25}

Entries == {BaseEntry(r) @@ p @@ q : r \in RiderIds, p \in PositionOpts, q \in PointsOpts}

\* results of calculate_points_and_team_colors: every color in them is
\* non-empty, as extract_rider_color never returns ""
RiderMaps ==
    { [r \in {} |-> EmptyDict],
      [r \in {"r1"} |-> [SPR |-> 12, RAC |-> 25, team_color |-> "#FF0000"]],
      [r \in {"r1", "r3"} |->
          IF r = "r1" THEN [SPR |-> 12, RAC |-> 25, team_color |-> "#FF0000"]
          ELSE [SPR |-> 0, RAC |-> 20, team_color |-> "#ddd"]] }

(***************************************************************************)
(* Idle values of each component, for the specifications that do not run it *)
(***************************************************************************)
ColorOff ==
    /\ rider_info = <<>>
    /\ color_out = ""
    /\ color_pc = "off"

AsmOff ==
    /\ standings = <<>>
    /\ rider_map = [r \in {} |-> EmptyDict]
    /\ results = <<>>
    /\ asm_pc = "off"

AggOff ==
    /\ sessions = <<>>
    /\ fetched = <<>>
    /\ processed = <<>>
    /\ rider_dict = [r \in {} |-> EmptyDict]
    /\ agg_pc = "off"

KeyOff ==
    /\ key_ids = <<>>
    /\ key_parts = <<>>
    /\ key_pc = "off"

CacheOff ==
    /\ standings_cache = EmptyCache
    /\ redis_doc = [present |-> FALSE, doc |-> EmptyCache, ex |-> 0]
    /\ file_doc = [state |-> "absent", doc |-> EmptyCache]
    /\ events_cfg = EmptyDict
    /\ pc = <<>>
    /\ loc = <<>>
    /\ response = [status |-> "none", rows |-> <<>>]
    /\ warm = EmptyCache

(***************************************************************************)
(* Inputs of the session aggregator                                        *)
(***************************************************************************)
MaxSessions == 2

\* a classification entry: rider r with pts points and the extra pairs colorPairs
ClassEntry(r, pts, colorPairs) ==
    << <<"rider", [id |-> r]>>, <<"points", pts>> >> \o colorPairs

BorderLeftGreen == << <<"style", <<Decl("border-left", TRUE, Hex("#00FF00"))>> >> >>

SessionCatalogue ==
    { [id |-> "race1", type |-> "RAC"],
      [id |-> "sprint1", type |-> "SPR"],
      [id |-> "race2", type |-> "rac"],
      [id |-> "practice", type |-> "FP1"],
      [id |-> "untyped"] }

\* the classification upstream holds for each session
ClassificationOf(id) ==
    CASE id = "race1" ->
            << ClassEntry("r1", 25, << <<"team_color", "#AA0000">> >>),
               ClassEntry("r2", 20, BorderLeftGreen) >>
      [] id = "sprint1" ->
            << ClassEntry("r1", 12, << <<"team_color", "#BB0000">> >>),
               ClassEntry("r2", 9, BorderLeftGreen) >>
      [] id = "race2" ->
            << ClassEntry("r2", 25, <<>>), ClassEntry("r1", 20, <<>>) >>
      [] id = "practice" ->
            << ClassEntry("r3", 7, << <<"team_color", "#123456">> >>),
               ClassEntry("r1", 5, << <<"team_color", "#123456">> >>) >>
      [] OTHER ->
            << ClassEntry("r1", 3, <<>>) >>

\* a payload whose second entry has no rider
RiderlessClassification ==
    << ClassEntry("r1", 11, <<>>), << <<"points", 5>> >> >>

\* how fetch_session_classification(id) can end: it raises, it returns the
\* payload, it returns {} for a payload without "classification", or it
\* returns a payload with an entry that has no rider
FetchOutcomes(id) ==
    { [kind |-> "raise", data |-> EmptyDict],
      [kind |-> "ok", data |-> [classification |-> ClassificationOf(id)]],
      [kind |-> "ok", data |-> EmptyDict],
      [kind |-> "ok", data |-> [classification |-> RiderlessClassification]] }

(***************************************************************************)
(* SpecAgg: calculate_points_and_team_colors on one session list, the      *)
(* fetches completing in any order                                         *)
(***************************************************************************)
AggInit ==
    /\ sessions \in BoundedSeq(SessionCatalogue, MaxSessions)
    /\ fetched \in BoundedSeq(UNION {FetchOutcomes(c.id) : c \in SessionCatalogue},
                              MaxSessions)
    /\ Len(fetched) = Len(sessions)
    /\ \A i \in 1..Len(sessions) : fetched[i] \in FetchOutcomes(sessions[i].id)
    /\ processed = <<>>
    /\ rider_dict = [r \in {} |-> EmptyDict]
    /\ agg_pc = "run"
    /\ ColorOff /\ AsmOff /\ CacheOff /\ KeyOff

Range(f) == {f[i] : i \in DOMAIN f}

\* the next future as_completed yields is that of sessions[i]
ProcessSession(i) ==
    /\ agg_pc = "run"
    /\ i \notin Range(processed)
    /\ ~FoldRaises(sessions[i], fetched[i])
    /\ rider_dict' = ApplySession(rider_dict, sessions[i], fetched[i])
    /\ processed' = Append(processed, i)
    /\ UNCHANGED <<sessions, fetched, agg_pc, color_vars, asm_vars, cache_vars, key_vars>>

\* the same iteration when the fold raises: the exception leaves
\* calculate_points_and_team_colors and rider_dict is never returned
ProcessRaise(i) ==
    /\ agg_pc = "run"
    /\ i \notin Range(processed)
    /\ FoldRaises(sessions[i], fetched[i])
    /\ agg_pc' = "raised"
    /\ UNCHANGED <<sessions, fetched, processed, rider_dict,
                   color_vars, asm_vars, cache_vars, key_vars>>

\* every future has been consumed: return rider_dict
AggReturn ==
    /\ agg_pc = "run"
    /\ Range(processed) = 1..Len(sessions)
    /\ agg_pc' = "done"
    /\ UNCHANGED <<sessions, fetched, processed, rider_dict, color_vars, asm_vars, cache_vars, key_vars>>

AggNext ==
    \/ \E i \in 1..Len(sessions) : ProcessSession(i)
    \/ \E i \in 1..Len(sessions) : ProcessRaise(i)
    \/ AggReturn

SpecAgg == AggInit /\ [][AggNext]_vars

(***************************************************************************)
(* SpecAssemble: get_full_standings' row loop on one base standings list   *)
(***************************************************************************)
AsmInit ==
    /\ standings \in BoundedSeq(Entries, MaxRows)
    /\ rider_map \in RiderMaps
    /\ results = <<>>
    /\ asm_pc = "call"
    /\ ColorOff /\ AggOff /\ CacheOff /\ KeyOff

Assemble ==
    /\ asm_pc = "call"
    /\ results' = AssembleRows(standings, rider_map)
    /\ asm_pc' = "done"
    /\ UNCHANGED <<standings, rider_map, color_vars, agg_vars, cache_vars, key_vars>>

AsmNext == Assemble

SpecAssemble == AsmInit /\ [][AsmNext]_vars

(***************************************************************************)
(* SpecColor: the color resolver applied to one classification entry       *)
(***************************************************************************)
ColorInit ==
    /\ rider_info \in RiderInfos
    /\ color_out = ""
    /\ color_pc = "call"
    /\ AsmOff /\ AggOff /\ CacheOff /\ KeyOff

ResolveColor ==
    /\ color_pc = "call"
    /\ color_out' = extract_rider_color(rider_info)
    /\ color_pc' = "done"
    /\ UNCHANGED <<rider_info, asm_vars, agg_vars, cache_vars, key_vars>>

ColorNext == ResolveColor

SpecColor == ColorInit /\ [][ColorNext]_vars

(***************************************************************************)
(* Upstream data of the cache manager                                      *)
(***************************************************************************)
\* what fetch_seasons returns, in upstream order; "sx" carries no year
UpstreamSeasons ==
    << [id |-> "s23", year |-> 2023], [id |-> "s25", year |-> 2025],
       [id |-> "sx"], [id |-> "s24", year |-> 2024] >>

\* what fetch_categories returns for a season
UpstreamCategories(season_id) ==
    CASE season_id = "s24" -> << [id |-> "c1", name |-> "MotoGP"],
                                 [id |-> "c2", name |-> "Moto2"] >>
      [] season_id = "s23" -> << [id |-> "c1", name |-> "MotoGP"] >>
      [] season_id = "s25" -> << [id |-> "c1", name |-> "MotoGP"] >>
      [] OTHER -> <<>>

\* raw["classification"] of the standings endpoint; round 1 is what upstream
\* held when an earlier process wrote its snapshot, round 2 what it holds now
UpstreamStandings(season_id, category_id, round) ==
    CASE season_id = "s24" /\ category_id = "c1" ->
            << BaseEntry("r1") @@ ("position" :> 1) @@ ("points" :> 25 * round),
               BaseEntry("r2") @@ ("position" :> 2) @@ ("points" :> 20 * round) >>
      [] season_id = "s24" /\ category_id = "c2" ->
            << BaseEntry("r3") @@ ("position" :> 1) @@ ("points" :> 16 * round) >>
      [] season_id = "s23" /\ category_id = "c1" ->
            << BaseEntry("r2") @@ ("position" :> 1) @@ ("points" :> 20) >>
      [] OTHER -> <<>>

\* the sessions endpoint for the one finished event of a season
UpstreamSessions(season_id, category_id) ==
    IF season_id = "s24" /\ category_id = "c1"
    THEN << [id |-> "race1", type |-> "RAC"], [id |-> "practice", type |-> "FP1"],
            [id |-> "sprint1", type |-> "SPR"] >>
    ELSE <<>>

\* the events endpoint: finished events, none, or HTTP 404
EventConfigs ==
    { [s \in {"s23", "s24", "s25"} |->
          CASE s = "s25" -> a [] s = "s24" -> b [] OTHER -> c] :
      <<a, b, c>> \in { <<"none", "some", "some">>, <<"404", "some", "none">>,
                        <<"none", "404", "none">>, <<"some", "some", "some">> } }

(***************************************************************************)
(* Cache manager: pure parts                                               *)
(***************************************************************************)
\* key_str = f"{season_id}__{cat_id}"
KeyStr(season_id, category_id) == season_id \o "__" \o category_id

\* d[k] = v on a dict
Put(d, k, v) == [x \in DOMAIN d \cup {k} |-> IF x = k THEN v ELSE d[x]]

\* valid_seasons: the seasons with an integer year
HasYear(season) == "year" \in DOMAIN season

\* list.sort(key=year, reverse=True)
RECURSIVE SortByYearDesc(_)
SortByYearDesc(seq) ==
    IF seq = <<>> THEN <<>>
    ELSE LET rest == SortByYearDesc(Tail(seq))
             olderOrEqual(x) == x.year <= Head(seq).year
             newer(x) == x.year > Head(seq).year
         IN  SelectSeq(rest, newer) \o <<Head(seq)>> \o SelectSeq(rest, olderOrEqual)

ValidSeasons == SortByYearDesc(SelectSeq(UpstreamSeasons, HasYear))

\* fetch_events: a 404 is turned into an empty list
fetch_events(cfg, season_id) ==
    IF cfg[season_id] = "some" THEN << [id |-> "e1"] >> ELSE <<>>

\* seasons_to_build: the valid seasons not after the cutoff, newest first
SeasonsToBuild(max_year) ==
    LET upTo(x) == x.year <= max_year
    IN  SortByYearDesc(SelectSeq(ValidSeasons, upTo))

\* the <<season_id, cat_id>> pairs the two nested loops of
\* precompute_standings visit, in order
RECURSIVE PairsOf(_)
PairsOf(seasons) ==
    IF seasons = <<>> THEN <<>>
    ELSE LET cats == UpstreamCategories(Head(seasons).id)
         IN  [j \in 1..Len(cats) |-> <<Head(seasons).id, cats[j].id>>]
             \o PairsOf(Tail(seasons))

KeysToBuild(max_year) == PairsOf(SeasonsToBuild(max_year))

Perms(n) == {f \in [1..n -> 1..n] : \A i, j \in 1..n : f[i] = f[j] => i = j}

\* the rider_map get_full_standings can end up with: no session when the
\* season has no event or the sessions call of the event fails (the failure is
\* printed and skipped), else the aggregate for some completion order of the
\* classification fetches.  The classification fetches of a rebuild succeed
\* here; SpecAgg explores their failures.
RiderMapsFor(cfg, season_id, category_id) ==
    LET all_sess == fetch_sessions(UpstreamSessions(season_id, category_id))
        n == Len(all_sess)
        outs == [i \in 1..n |->
                    [kind |-> "ok",
                     data |-> [classification |-> ClassificationOf(all_sess[i].id)]]]
    IN  IF fetch_events(cfg, season_id) = <<>> \/ all_sess = <<>>
        THEN {[r \in {} |-> EmptyDict]}
        ELSE {[r \in {} |-> EmptyDict]} \cup
             {RunAggregator(all_sess, outs, order) : order \in Perms(n)}

\* the values get_full_standings(season_id, category_id) can return
get_full_standings(cfg, season_id, category_id, round) ==
    LET stnd == UpstreamStandings(season_id, category_id, round)
    IN  IF stnd = <<>> THEN {<<>>}
        ELSE {AssembleRows(stnd, rmap) : rmap \in RiderMapsFor(cfg, season_id, category_id)}

\* get_full_standings on today's upstream data, tabulated
AllPairs == Range(PairsOf(ValidSeasons))

FullStandingsNow ==
    [cfg \in EventConfigs |->
        [p \in AllPairs |-> get_full_standings(cfg, p[1], p[2], 2)]]

KeysTable == [y \in {2023, 2024, 2025} |-> KeysToBuild(y)]

\* row["Country"] = row.pop("CountryFlag")
RenameFlag(row) ==
    [k \in (DOMAIN row \ {"CountryFlag"}) \cup {"Country"} |->
        IF k = "Country" THEN row.CountryFlag ELSE row[k]]

\* mutant: the key is indexed, so that an unknown key is an error
Lookup_IndexKey(cache, season_id, category_id) ==
    IF season_id = "" \/ category_id = ""
    THEN [status |-> "ok", rows |-> <<>>, cache |-> cache]
    ELSE IF KeyStr(season_id, category_id) \notin DOMAIN cache
    THEN [status |-> "error", rows |-> <<>>, cache |-> cache]
    ELSE [status |-> "ok", rows |-> cache[KeyStr(season_id, category_id)],
          cache |-> cache]

\* api_standings: the response and the mapping it leaves behind
Lookup(cache, season_id, category_id) ==
    IF season_id = "" \/ category_id = ""
    THEN [status |-> "ok", rows |-> <<>>, cache |-> cache]
    ELSE LET key_str == KeyStr(season_id, category_id)
             data == Get(cache, key_str, <<>>)
             \* rows that raise KeyError on row.pop("CountryFlag")
             bad == {i \in 1..Len(data) : "CountryFlag" \notin DOMAIN data[i]}
             stop == IF bad = {} THEN Len(data) + 1 ELSE FirstMatch(bad)
             renamed == [i \in 1..Len(data) |->
                            IF i < stop THEN RenameFlag(data[i]) ELSE data[i]]
         IN  IF data # <<>> /\ "CountryFlag" \in DOMAIN data[1]
             THEN [status |-> IF bad = {} THEN "ok" ELSE "error",
                   rows |-> IF bad = {} THEN renamed ELSE <<>>,
                   cache |-> Put(cache, key_str, renamed)]
             ELSE [status |-> "ok", rows |-> data, cache |-> cache]

\* a complete snapshot as an earlier process built it from round-1 data
OldSnapshot ==
    LET cfg == [s \in {"s23", "s24", "s25"} |-> IF s = "s25" THEN "none" ELSE "some"]
        keys == KeysToBuild(2024)
        rowsOf(p) == CHOOSE rows \in get_full_standings(cfg, p[1], p[2], 1) :
                        \A r \in 1..Len(rows) : rows[r].RAC + rows[r].SPR = 0
    IN  [k \in {KeyStr(keys[i][1], keys[i][2]) : i \in 1..Len(keys)} |->
            rowsOf(CHOOSE p \in Range(keys) : KeyStr(p[1], p[2]) = k)]

\* the same snapshot as written with the legacy field name CountryFlag
LegacyRow(row) ==
    [k \in (DOMAIN row \ {"Country"}) \cup {"CountryFlag"} |->
        IF k = "CountryFlag" THEN row.Country ELSE row[k]]

LegacySnapshot ==
    [k \in DOMAIN OldSnapshot |->
        [i \in 1..Len(OldSnapshot[k]) |-> LegacyRow(OldSnapshot[k][i])]]

\* the same snapshot with the legacy name in some rows only: in the rows at
\* the positions legacy of each key
MixedSnapshot(legacy) ==
    [k \in DOMAIN OldSnapshot |->
        [i \in 1..Len(OldSnapshot[k]) |->
            IF i \in legacy THEN LegacyRow(OldSnapshot[k][i]) ELSE OldSnapshot[k][i]]]

(***************************************************************************)
(* Spec: the cache manager's threads                                       *)
(***************************************************************************)
\* r.set(CACHE_KEY, ..., ex=3600): the seconds after which the store drops
\* the document
CacheTtl == 3600

\* the thread started at process start, which runs load_cache
MainThread == 0

\* the number of /api/refresh requests the model serves
MaxRefresh == 1

Threads == MainThread..MaxRefresh

NoLocals == [i |-> 0, max_year |-> 0, k |-> 0, before |-> EmptyCache]

\* thread positions inside precompute_standings
InRebuild(p) == p \in {"scan", "build", "save"}

Init ==
    /\ standings_cache = EmptyCache
    /\ redis_doc \in { [present |-> FALSE, doc |-> EmptyCache, ex |-> 0],
                       [present |-> TRUE, doc |-> OldSnapshot, ex |-> CacheTtl] }
    /\ file_doc \in { [state |-> "absent", doc |-> EmptyCache],
                      [state |-> "corrupt", doc |-> EmptyCache],
                      [state |-> "ok", doc |-> OldSnapshot],
                      [state |-> "ok", doc |-> LegacySnapshot],
                      [state |-> "ok", doc |-> MixedSnapshot({1})],
                      [state |-> "ok", doc |-> MixedSnapshot({2})] }
    /\ events_cfg \in EventConfigs
    /\ pc = [t \in Threads |-> IF t = MainThread THEN "load" ELSE "idle"]
    /\ loc = [t \in Threads |-> NoLocals]
    /\ response = [status |-> "none", rows |-> <<>>]
    /\ warm = EmptyCache
    /\ ColorOff /\ AsmOff /\ AggOff /\ KeyOff

\* save_cache_to_redis: the document is set, or the failure is printed
save_cache_to_redis(cache_data, ok) ==
    redis_doc' = IF ok THEN [present |-> TRUE, doc |-> cache_data, ex |-> CacheTtl]
                       ELSE redis_doc

\* mutant: the file's snapshot is loaded without being written to the store
LoadSnapshot_NoReseed(t, redis_ok, save_ok) ==
    LET loaded_cache == IF redis_ok /\ redis_doc.present THEN redis_doc.doc ELSE EmptyCache
    IN  /\ pc[t] = "load"
        /\ IF loaded_cache # EmptyCache
           THEN standings_cache' = loaded_cache
           ELSE /\ file_doc.state = "ok"
                /\ standings_cache' = file_doc.doc
        /\ UNCHANGED redis_doc
        /\ warm' = standings_cache'
        /\ pc' = [pc EXCEPT ![t] = "loaded"]
        /\ UNCHANGED <<file_doc, events_cfg, loc, response,
                     color_vars, asm_vars, agg_vars, key_vars>>

\* mutant: the file is consulted before the store
LoadSnapshot_FileFirst(t, redis_ok, save_ok) ==
    LET loaded_cache == IF redis_ok /\ redis_doc.present THEN redis_doc.doc ELSE EmptyCache
    IN  /\ pc[t] = "load"
        /\ IF file_doc.state = "ok"
           THEN /\ standings_cache' = file_doc.doc
                /\ save_cache_to_redis(file_doc.doc, save_ok)
           ELSE /\ loaded_cache # EmptyCache
                /\ standings_cache' = loaded_cache
                /\ UNCHANGED redis_doc
        /\ warm' = standings_cache'
        /\ pc' = [pc EXCEPT ![t] = "loaded"]
        /\ UNCHANGED <<file_doc, events_cfg, loc, response,
                     color_vars, asm_vars, agg_vars, key_vars>>

\* load_cache when the store or the file yields a snapshot: redis_ok is
\* whether the store answers
LoadSnapshot(t, redis_ok, save_ok) ==
    LET loaded_cache == IF redis_ok /\ redis_doc.present THEN redis_doc.doc ELSE EmptyCache
    IN  /\ pc[t] = "load"
        /\ IF loaded_cache # EmptyCache
           THEN /\ standings_cache' = loaded_cache
                /\ UNCHANGED redis_doc
           ELSE /\ file_doc.state = "ok"
                /\ standings_cache' = file_doc.doc
                /\ save_cache_to_redis(file_doc.doc, save_ok)
        /\ warm' = standings_cache'
        /\ pc' = [pc EXCEPT ![t] = "loaded"]
        /\ UNCHANGED <<file_doc, events_cfg, loc, response,
                     color_vars, asm_vars, agg_vars, key_vars>>

\* mutant: a store that does not answer forces the rebuild, whatever the file
LoadRebuild_OnStoreFailure(t, redis_ok) ==
    LET loaded_cache == IF redis_ok /\ redis_doc.present THEN redis_doc.doc ELSE EmptyCache
    IN  /\ pc[t] = "load"
        /\ loaded_cache = EmptyCache
        /\ file_doc.state # "ok" \/ ~redis_ok
        /\ pc' = [pc EXCEPT ![t] = "rebuild"]
        /\ UNCHANGED <<standings_cache, redis_doc, file_doc, events_cfg, loc, response, warm,
                     color_vars, asm_vars, agg_vars, key_vars>>

\* load_cache when neither yields one: precompute_standings is called
LoadRebuild(t, redis_ok) ==
    LET loaded_cache == IF redis_ok /\ redis_doc.present THEN redis_doc.doc ELSE EmptyCache
    IN  /\ pc[t] = "load"
        /\ loaded_cache = EmptyCache
        /\ file_doc.state # "ok"
        /\ pc' = [pc EXCEPT ![t] = "rebuild"]
        /\ UNCHANGED <<standings_cache, redis_doc, file_doc, events_cfg, loc, response, warm,
                     color_vars, asm_vars, agg_vars, key_vars>>

\* precompute_standings, its first lines: the global is re-bound to {} and
\* the seasons are fetched (seasons_ok: the fetch does not raise).  A refresh
\* thread enters it from api_refresh, the main thread from load_cache.
RebuildStart(t, seasons_ok) ==
    /\ pc[t] = IF t = MainThread THEN "rebuild" ELSE "idle"
    /\ standings_cache' = EmptyCache
    /\ loc' = [loc EXCEPT ![t] = [NoLocals EXCEPT !.i = 1, !.before = standings_cache]]
    /\ pc' = [pc EXCEPT ![t] = IF ~seasons_ok THEN "raised"
                                ELSE IF ValidSeasons = <<>> THEN "aborted"
                                ELSE "scan"]
    /\ UNCHANGED <<redis_doc, file_doc, events_cfg, response, warm,
                     color_vars, asm_vars, agg_vars, key_vars>>

\* mutant: a season whose events call answers 404 ends the scan with the error
ScanStep_RaiseOnNotFound(t, fetch_ok) ==
    LET s == ValidSeasons[loc[t].i]
        events == fetch_events(events_cfg, s.id)
    IN  /\ pc[t] = "scan"
        /\ IF ~fetch_ok \/ events_cfg[s.id] = "404"
           THEN /\ pc' = [pc EXCEPT ![t] = "raised"]
                /\ UNCHANGED loc
           ELSE IF Len(events) > 0
           THEN /\ loc' = [loc EXCEPT ![t].max_year = s.year, ![t].k = 1]
                /\ pc' = [pc EXCEPT ![t] =
                            IF KeysTable[s.year] = <<>> THEN "save" ELSE "build"]
           ELSE IF loc[t].i < Len(ValidSeasons)
           THEN /\ loc' = [loc EXCEPT ![t].i = @ + 1]
                /\ UNCHANGED pc
           ELSE /\ pc' = [pc EXCEPT ![t] = "aborted"]
                /\ UNCHANGED loc
        /\ UNCHANGED <<standings_cache, redis_doc, file_doc, events_cfg, response, warm,
                     color_vars, asm_vars, agg_vars, key_vars>>

\* one iteration of the scan for the most recent season with events
\* (fetch_ok: fetch_events does not raise)
ScanStep(t, fetch_ok) ==
    LET s == ValidSeasons[loc[t].i]
        events == fetch_events(events_cfg, s.id)
    IN  /\ pc[t] = "scan"
        /\ IF ~fetch_ok
           THEN /\ pc' = [pc EXCEPT ![t] = "raised"]
                /\ UNCHANGED loc
           ELSE IF Len(events) > 0
           THEN /\ loc' = [loc EXCEPT ![t].max_year = s.year, ![t].k = 1]
                /\ pc' = [pc EXCEPT ![t] =
                            IF KeysTable[s.year] = <<>> THEN "save" ELSE "build"]
           ELSE IF loc[t].i < Len(ValidSeasons)
           THEN /\ loc' = [loc EXCEPT ![t].i = @ + 1]
                /\ UNCHANGED pc
           ELSE /\ pc' = [pc EXCEPT ![t] = "aborted"]
                /\ UNCHANGED loc
        /\ UNCHANGED <<standings_cache, redis_doc, file_doc, events_cfg, response, warm,
                     color_vars, asm_vars, agg_vars, key_vars>>

\* one iteration of the loop over categories: data is what
\* get_full_standings returns, stored in the global mapping as it is bound now
BuildStep(t, data) ==
    LET keys == KeysTable[loc[t].max_year]
        p == keys[loc[t].k]
    IN  /\ pc[t] = "build"
        /\ data \in FullStandingsNow[events_cfg][p]
        /\ standings_cache' = Put(standings_cache, KeyStr(p[1], p[2]), data)
        /\ IF loc[t].k < Len(keys)
           THEN /\ loc' = [loc EXCEPT ![t].k = @ + 1]
                /\ UNCHANGED pc
           ELSE /\ pc' = [pc EXCEPT ![t] = "save"]
                /\ UNCHANGED loc
        /\ UNCHANGED <<redis_doc, file_doc, events_cfg, response, warm,
                     color_vars, asm_vars, agg_vars, key_vars>>

\* the same iteration when fetch_categories, fetch_standings_api or
\* fetch_events raises
BuildRaise(t) ==
    /\ pc[t] = "build"
    /\ pc' = [pc EXCEPT ![t] = "raised"]
    /\ UNCHANGED <<standings_cache, redis_doc, file_doc, events_cfg, loc, response, warm,
                     color_vars, asm_vars, agg_vars, key_vars>>

\* mutant: the file is not written
SaveStep_NoFile(t, save_ok) ==
    /\ pc[t] = "save"
    /\ save_cache_to_redis(standings_cache, save_ok)
    /\ warm' = standings_cache
    /\ pc' = [pc EXCEPT ![t] = "done"]
    /\ UNCHANGED <<standings_cache, file_doc, events_cfg, loc, response,
                     color_vars, asm_vars, agg_vars, key_vars>>

\* the end of precompute_standings: the mapping is dumped to the file and
\* saved to the store
SaveStep(t, save_ok) ==
    /\ pc[t] = "save"
    /\ file_doc' = [state |-> "ok", doc |-> standings_cache]
    /\ save_cache_to_redis(standings_cache, save_ok)
    /\ warm' = standings_cache
    /\ pc' = [pc EXCEPT ![t] = "done"]
    /\ UNCHANGED <<standings_cache, events_cfg, loc, response,
                     color_vars, asm_vars, agg_vars, key_vars>>

\* GET /api/standings?seasonUuid=season_id&categoryUuid=category_id
api_standings(season_id, category_id) ==
    LET r == Lookup(standings_cache, season_id, category_id)
    IN  /\ response' = [status |-> r.status, rows |-> r.rows]
        /\ standings_cache' = r.cache
        /\ UNCHANGED <<redis_doc, file_doc, events_cfg, pc, loc, warm,
                     color_vars, asm_vars, agg_vars, key_vars>>

LookupSeasons == {"", "s24", "s99"}
LookupCategories == {"", "c1"}

\* every thread other than t is before its first step or past its last
Alone(t) ==
    \A u \in Threads \ {t} :
        pc[u] \in {"load", "idle", "loaded", "done", "aborted", "raised"}

Next ==
    \/ \E t \in Threads, a, b \in BOOLEAN : LoadSnapshot(t, a, b)
    \/ \E t \in Threads, a \in BOOLEAN : LoadRebuild(t, a)
    \/ \E t \in Threads, a \in BOOLEAN : RebuildStart(t, a)
    \/ \E t \in Threads, a \in BOOLEAN : ScanStep(t, a)
    \/ \E t \in Threads :
          \E data \in UNION {FullStandingsNow[events_cfg][p] : p \in AllPairs} :
              BuildStep(t, data)
    \/ \E t \in Threads : BuildRaise(t)
    \/ \E t \in Threads, a \in BOOLEAN : SaveStep(t, a)
    \/ \E s \in LookupSeasons, c \in LookupCategories : api_standings(s, c)

\* the threads of the process run concurrently: a refresh request can arrive
\* at any moment of a load or of another rebuild
Spec == Init /\ [][Next]_vars

\* the same threads when the requests are served one at a time: a thread
\* runs only while no other is between its first and its last step
SerialNext ==
    \/ \E t \in Threads, a, b \in BOOLEAN : Alone(t) /\ LoadSnapshot(t, a, b)
    \/ \E t \in Threads, a \in BOOLEAN : Alone(t) /\ LoadRebuild(t, a)
    \/ \E t \in Threads, a \in BOOLEAN : Alone(t) /\ RebuildStart(t, a)
    \/ \E t \in Threads, a \in BOOLEAN : Alone(t) /\ ScanStep(t, a)
    \/ \E t \in Threads :
          \E data \in UNION {FullStandingsNow[events_cfg][p] : p \in AllPairs} :
              Alone(t) /\ BuildStep(t, data)
    \/ \E t \in Threads : Alone(t) /\ BuildRaise(t)
    \/ \E t \in Threads, a \in BOOLEAN : Alone(t) /\ SaveStep(t, a)
    \/ \E s \in LookupSeasons, c \in LookupCategories : api_standings(s, c)

SpecSerial == Init /\ [][SerialNext]_vars

(***************************************************************************)
(* SpecKey: a cache key is built from two identifiers and split again      *)
(***************************************************************************)
\* identifiers are sequences of characters, so that the split works on the
\* text of the key
Chars == {"a", "b", "_"}

MaxIdLen == 2

\* the separator "__"
Separator == <<"_", "_">>

\* the positions at which "__" occurs in text
SeparatorAt(text) ==
    {i \in 1..(Len(text) - 1) : text[i] = "_" /\ text[i + 1] = "_"}

\* the non-empty identifiers that do not contain "__"
Ids ==
    {id \in UNION {[1..k -> Chars] : k \in 1..MaxIdLen} : SeparatorAt(id) = {}}

\* f"{season_id}__{cat_id}" as text
KeyText(season, cat) == season \o Separator \o cat

\* text.split("__"): cut at the leftmost occurrence, then split the rest
RECURSIVE Split(_)
Split(text) ==
    IF SeparatorAt(text) = {} THEN <<text>>
    ELSE LET i == FirstMatch(SeparatorAt(text))
         IN  <<SubSeq(text, 1, i - 1)>> \o Split(SubSeq(text, i + 2, Len(text)))

KeyInit ==
    /\ key_ids \in Ids \X Ids
    /\ key_parts = <<>>
    /\ key_pc = "call"
    /\ ColorOff /\ AsmOff /\ AggOff /\ CacheOff

\* the key precompute_standings stores is split as api_seasons splits it
SplitKey ==
    /\ key_pc = "call"
    /\ key_parts' = Split(KeyText(key_ids[1], key_ids[2]))
    /\ key_pc' = "done"
    /\ UNCHANGED <<key_ids, color_vars, asm_vars, agg_vars, cache_vars>>

KeyNext == SplitKey

SpecKey == KeyInit /\ [][KeyNext]_vars

(***************************************************************************)
(* Claims about the color resolver                                         *)
(***************************************************************************)
\* the explicit color field carried directly by the entry ("" if none)
DirectColor(info) ==
    IF Truthy(OGet(info, "team_color", "")) THEN OGet(info, "team_color", "")
    ELSE OGet(info, "rider_color", "")

\* the explicit color field of the entry's nested team object ("" if none)
NestedTeamColor(info) == Get(OGet(info, "team", EmptyDict), "color", "")

\* C10: an entry with a non-empty explicit color field, directly on the entry
\* or on its nested team object, resolves to that color, whatever its style
\* text says.
C10_ExplicitColorWins ==
    color_pc = "done" =>
        /\ DirectColor(rider_info) # "" => color_out = DirectColor(rider_info)
        /\ (DirectColor(rider_info) = "" /\ NestedTeamColor(rider_info) # "")
              => color_out = NestedTeamColor(rider_info)

\* the color tokens of the declarations "prop: [<n>px solid] <color>" of a
\* style text, the property name read as CSS reads it (in any case)
StyleColors(style_str, prop, px) ==
    {IF style_str[i].col.kind = "hex" THEN style_str[i].col.hex
                                      ELSE FormatRgb(style_str[i].col) :
        i \in {j \in 1..Len(style_str) :
                 /\ IgnoreCase(style_str[j].prop) = prop
                 /\ style_str[j].px = px
                 /\ style_str[j].col.kind \in {"hex", "rgb"}}}

NoExplicitColor(info) == DirectColor(info) = "" /\ NestedTeamColor(info) = ""

\* C11: for an entry with no explicit color field, a border-left color of the
\* style text wins over a background-color of the same text; with neither,
\* the first bare #RRGGBB literal of the entry is returned; with nothing, the
\* neutral default; and the result is never the empty string.
C11_StylePrecedence ==
    (color_pc = "done" /\ NoExplicitColor(rider_info)) =>
        LET style_str == OGet(rider_info, "style", <<>>)
            borders == StyleColors(style_str, "border-left", TRUE)
            backgrounds == StyleColors(style_str, "background-color", FALSE)
            literals == HexesOfText(rider_info)
        IN  /\ color_out # ""
            /\ IF borders # {} THEN color_out \in borders
               ELSE IF backgrounds # {} THEN color_out \in backgrounds
               ELSE IF literals # <<>> THEN color_out = literals[1]
               ELSE color_out = "#ddd"

(***************************************************************************)
(* Claims about the standings assembler                                    *)
(***************************************************************************)
\* the display name of a base entry's rider
EntryName(rd) ==
    IF Get(rd.rider, "full_name", "") # "" THEN rd.rider.full_name
    ELSE JoinName(Get(rd.rider, "name", ""), Get(rd.rider, "surname", ""))

\* C6: the assembled rows are as many as the base standings entries and row i
\* is built from base entry i (no rider filtered, duplicated or re-ordered),
\* whatever the aggregate mapping holds.
C6_RowPerEntry ==
    asm_pc = "done" =>
        /\ Len(results) = Len(standings)
        /\ \A i \in 1..Len(standings) :
              /\ results[i].Rider = EntryName(standings[i])
              /\ results[i].P = Get(standings[i], "position", NoPosition)
              /\ results[i].Points = Get(standings[i], "points", 0)

\* two different riders assembled, one of them absent from a non-empty
\* aggregate mapping
C6_Witness ==
    /\ asm_pc = "done"
    /\ Len(results) = 2
    /\ results[1].Rider # results[2].Rider
    /\ DOMAIN rider_map # {}
    /\ \E i \in 1..2 : standings[i].rider.id \notin DOMAIN rider_map

\* leader_points as the claims state it: the points of the first base entry,
\* 0 when missing
ClaimLeaderPoints == Get(standings[1], "points", 0)

\* C7: every row whose position is not 1 has Def. "-d" with
\* d = leader_points - points when d > 0, and "0" otherwise.
C7_DefGapValue ==
    asm_pc = "done" =>
        \A i \in 1..Len(results) :
            results[i].P # 1 =>
                LET d == ClaimLeaderPoints - results[i].Points
                IN  results[i].Def = IF d > 0 THEN "-" \o ToString(d) ELSE "0"

\* a tie with the first entry and a positive gap in one list
C7_Witness ==
    /\ asm_pc = "done"
    /\ Len(results) = 2
    /\ results[1].P # 1 /\ results[1].Def = "0"
    /\ results[2].P # 1 /\ results[2].Def = "-5"

\* C8 as stated: the first entry's row always has an empty Def. and no other
\* row has one.
C8_FirstRowBlank ==
    (asm_pc = "done" /\ results # <<>>) =>
        /\ results[1].Def = ""
        /\ \A i \in 2..Len(results) : results[i].Def # ""

\* C8 as amended: a row's Def. is empty exactly when the position of its base
\* entry equals 1.
C8_BlankIffPositionOne ==
    asm_pc = "done" =>
        \A i \in 1..Len(results) :
            (results[i].Def = "") <=> (Get(standings[i], "position", NoPosition) = 1)

\* a first entry without a position (Def. "0") followed by an entry whose
\* position is 1 (Def. "")
C8_Witness ==
    /\ asm_pc = "done"
    /\ Len(results) = 2
    /\ "position" \notin DOMAIN standings[1] /\ results[1].Def = "0"
    /\ results[2].P = 1 /\ results[2].Def = ""

\* the color field of the entry's own team ("" if there is none)
OwnTeamColor(rd) == Get(Get(rd, "team", EmptyDict), "color", "")

\* C25: each row's TeamColor is the aggregate's color of the rider when the
\* rider is in the aggregate mapping, else the non-empty color of the entry's
\* own team, else the neutral default; it is never the empty string.
C25_ColorPriority ==
    asm_pc = "done" =>
        \A i \in 1..Len(results) :
            /\ results[i].TeamColor # ""
            /\ results[i].TeamColor =
                  IF standings[i].rider.id \in DOMAIN rider_map
                  THEN rider_map[standings[i].rider.id].team_color
                  ELSE IF OwnTeamColor(standings[i]) # ""
                  THEN OwnTeamColor(standings[i])
                  ELSE "#ddd"

\* r1 is in the mapping with a color other than its team's and r2 is neither
\* in the mapping nor in a team with a color
C25_Witness ==
    /\ asm_pc = "done"
    /\ Len(results) = 2
    /\ standings[1].rider.id = "r1" /\ standings[2].rider.id = "r2"
    /\ "r1" \in DOMAIN rider_map /\ "r2" \notin DOMAIN rider_map
    /\ results[1].TeamColor = "#FF0000" /\ OwnTeamColor(standings[1]) = "#CC0000"
    /\ results[2].TeamColor = "#ddd"

(***************************************************************************)
(* Claims about the session aggregator                                     *)
(***************************************************************************)
\* the aggregate of the sessions idxs[1], idxs[2], ... processed in this order
AggregateOf(idxs) == RunAggregator(sessions, fetched, idxs)

\* the processed sessions without those of a type other than sprint or race
ScoringOnly(idxs) ==
    LET keep(i) == IsScoring(sessions[i]) IN SelectSeq(idxs, keep)

\* C9: the aggregate mapping built from a session list equals the one built
\* from the same list without its sessions of other types: such a session
\* changes no rider's sprint points, race points or color, and adds no rider.
C9_OtherSessionsIgnored ==
    rider_dict = AggregateOf(ScoringOnly(processed))

\* a practice session with nonzero points was fetched and processed along
\* with a scoring session, and its rider r3 is not in the mapping
C9_Witness ==
    /\ agg_pc = "done"
    /\ \E i \in 1..Len(sessions) :
          /\ sessions[i].id = "practice"
          /\ "classification" \in DOMAIN fetched[i].data
    /\ "r1" \in DOMAIN rider_dict
    /\ "r3" \notin DOMAIN rider_dict

\* the colors the resolver gives rider rid over the entries the aggregator
\* folds: those of the scoring sessions whose classification was fetched
ResolvedColors(rid) ==
    UNION { {extract_rider_color(c[j]) :
                j \in {k \in 1..Len(c) : OGet(c[k], "rider", EmptyDict).id = rid}} :
            c \in {fetched[i].data.classification :
                     i \in {a \in 1..Len(sessions) :
                              /\ IsScoring(sessions[a])
                              /\ "classification" \in DOMAIN fetched[a].data}} }

\* base standings the two rebuilds assemble their rows from
RebuildStandings ==
    { UpstreamStandings("s24", "c1", 2), UpstreamStandings("s24", "c2", 2),
      << BaseEntry("r2") @@ ("points" :> 20), BaseEntry("r1") @@ ("position" :> 1) >> }

RowFields ==
    {"P", "Rider", "Num", "Points", "Def", "RAC", "SPR", "Country", "Team",
     "Bike", "TeamColor"}

\* C12: the rows a rebuild assembles from the same upstream data are, for
\* every other completion order of the fetches, equal in every field except
\* possibly TeamColor, and TeamColor differs only for a rider whose resolved
\* color differs between sessions.
C12_RebuildIdempotent ==
    agg_pc = "done" =>
        \A order \in Perms(Len(sessions)), stnd \in RebuildStandings :
            LET first == AssembleRows(stnd, rider_dict)
                second == AssembleRows(stnd, AggregateOf(order))
            IN  /\ Len(first) = Len(second)
                /\ \A i \in 1..Len(first) :
                      /\ \A f \in RowFields \ {"TeamColor"} : first[i][f] = second[i][f]
                      /\ first[i].TeamColor # second[i].TeamColor =>
                            Cardinality(ResolvedColors(stnd[i].rider.id)) > 1

\* two scoring sessions were folded, and in the other order r1's row would
\* carry another TeamColor
C12_Witness ==
    /\ agg_pc = "done"
    /\ Len(processed) = 2
    /\ "r1" \in DOMAIN rider_dict
    /\ rider_dict["r1"].RAC > 0 /\ rider_dict["r1"].SPR > 0
    /\ \E order \in Perms(Len(sessions)) :
          AggregateOf(order)["r1"].team_color # rider_dict["r1"].team_color

\* the processed sessions without those whose fetch raised or returned a
\* payload that lacks the classification or a rider
WellFetched(idxs) ==
    LET keep(i) == /\ fetched[i].kind = "ok"
                   /\ "classification" \in DOMAIN fetched[i].data
                   /\ fetched[i].data.classification # RiderlessClassification
    IN  SelectSeq(idxs, keep)

\* C17: a session whose fetch fails or whose payload has not the expected
\* shape is skipped: no exception leaves the aggregator, and the aggregates
\* equal those of the remaining sessions alone.
C17_FailedSessionSkipped ==
    /\ agg_pc # "raised"
    /\ agg_pc = "done" => rider_dict = AggregateOf(WellFetched(processed))

\* the points of rider rid in one classification
RECURSIVE EntryPoints(_, _)
EntryPoints(classification, rid) ==
    IF classification = <<>> THEN 0
    ELSE (IF OGet(Head(classification), "rider", EmptyDict).id = rid
          THEN OGet(Head(classification), "points", 0) ELSE 0)
         + EntryPoints(Tail(classification), rid)

\* the points of rider rid over the sessions n, n-1, ..., 1 of the list that
\* are of the given type and whose classification was fetched
RECURSIVE SessionPoints(_, _, _)
SessionPoints(n, type, rid) ==
    IF n = 0 THEN 0
    ELSE (IF /\ Upper(Get(sessions[n], "type", "")) = type
             /\ fetched[n].kind = "ok"
             /\ "classification" \in DOMAIN fetched[n].data
          THEN EntryPoints(fetched[n].data.classification, rid) ELSE 0)
         + SessionPoints(n - 1, type, rid)

\* the spec scenario: two races giving r1 25+25 and r2 20+20, base points
\* 300 and 250
ScenarioSessions ==
    << [id |-> "race1", type |-> "RAC"], [id |-> "race1", type |-> "RAC"] >>

ScenarioFetched ==
    [i \in 1..2 |-> [kind |-> "ok", data |-> [classification |-> ClassificationOf("race1")]]]

ScenarioStandings ==
    << BaseEntry("r1") @@ ("position" :> 1) @@ ("points" :> 300),
       BaseEntry("r2") @@ ("position" :> 2) @@ ("points" :> 250) >>

\* C20: when the aggregator returns, each rider's sprint points are the sum
\* of the rider's points over the fetched sprint sessions and the race points
\* the sum over the fetched race sessions, whatever the order of completion;
\* in the spec scenario the rows are r1 with RAC 50 and Def. "" and r2 with
\* RAC 40 and Def. "-50".
C20_PointsAreSums ==
    agg_pc = "done" =>
        /\ \A rid \in RiderIds :
              LET agg == Get(rider_dict, rid, [SPR |-> 0, RAC |-> 0, team_color |-> ""])
              IN  /\ agg.SPR = SessionPoints(Len(sessions), "SPR", rid)
                  /\ agg.RAC = SessionPoints(Len(sessions), "RAC", rid)
        /\ (sessions = ScenarioSessions /\ fetched = ScenarioFetched) =>
              LET rows == AssembleRows(ScenarioStandings, rider_dict)
              IN  /\ rows[1].P = 1 /\ rows[1].Points = 300
                  /\ rows[1].RAC = 50 /\ rows[1].Def = ""
                  /\ rows[2].P = 2 /\ rows[2].Points = 250
                  /\ rows[2].RAC = 40 /\ rows[2].Def = "-50"

\* the scenario ran to its end
C20_Witness ==
    /\ agg_pc = "done"
    /\ sessions = ScenarioSessions
    /\ fetched = ScenarioFetched
    /\ rider_dict["r1"].RAC = 50

\* session i contributes to the aggregate: it is a sprint or a race and its
\* classification was fetched
Contributes(i) ==
    /\ IsScoring(sessions[i])
    /\ fetched[i].kind = "ok"
    /\ "classification" \in DOMAIN fetched[i].data

\* the positions of rider rid's entries in the classification of session i
EntriesOf(i, rid) ==
    {j \in 1..Len(fetched[i].data.classification) :
        OGet(fetched[i].data.classification[j], "rider", EmptyDict).id = rid}

\* the resolver's result for the rider's entry in session i (the last one if
\* the classification lists the rider more than once)
SessionColor(i, rid) ==
    extract_rider_color(
        fetched[i].data.classification[
            CHOOSE j \in EntriesOf(i, rid) : \A k \in EntriesOf(i, rid) : k <= j])

\* the positions in the order idxs of the contributing sessions that contain rid
ContributingAt(idxs, rid) ==
    {n \in 1..Len(idxs) : Contributes(idxs[n]) /\ EntriesOf(idxs[n], rid) # {}}

\* C26: after aggregation a rider's color is the resolver's result for the
\* rider's entry in the contributing session processed last, and the color of
\* every contributing session of the rider is the final one under some order
\* of completion.
C26_LastWriterWins ==
    agg_pc = "done" =>
        \A rid \in DOMAIN rider_dict :
            LET at == ContributingAt(processed, rid)
                last == CHOOSE n \in at : \A m \in at : m <= n
            IN  /\ at # {}
                /\ rider_dict[rid].team_color = SessionColor(processed[last], rid)
                /\ \A n \in at :
                      \E order \in Perms(Len(sessions)) :
                          AggregateOf(order)[rid].team_color =
                              SessionColor(processed[n], rid)

\* the race listed first completed last, so r1 carries the race's color and
\* not the sprint's
C26_Witness ==
    /\ agg_pc = "done"
    /\ Len(sessions) = 2
    /\ sessions[1].id = "race1" /\ sessions[2].id = "sprint1"
    /\ Contributes(1) /\ Contributes(2)
    /\ fetched[1].data.classification = ClassificationOf("race1")
    /\ fetched[2].data.classification = ClassificationOf("sprint1")
    /\ processed = <<2, 1>>
    /\ rider_dict["r1"].team_color = "#AA0000"

(***************************************************************************)
(* Claims about the cache manager                                          *)
(***************************************************************************)
\* rows as served: a legacy row is served under the current field name
ServedRows(rows) ==
    [i \in 1..Len(rows) |->
        IF "CountryFlag" \in DOMAIN rows[i] THEN RenameFlag(rows[i]) ELSE rows[i]]

\* C1: every lookup returns the rows the last fully completed snapshot holds
\* for its key (none for a key the snapshot lacks), also while a rebuild is
\* in progress.
C1_LookupServesLastSnapshot ==
    [][\A s \in LookupSeasons, c \in LookupCategories :
          api_standings(s, c) =>
              response'.rows = ServedRows(Get(warm, KeyStr(s, c), <<>>))]_vars

\* C2: a rebuild that finds no season with events leaves the mapping as it
\* was when the rebuild started.
C2_AbortKeepsMapping ==
    [][\A t \in Threads :
          (pc[t] = "scan" /\ pc'[t] = "aborted") =>
              standings_cache' = loc[t].before]_vars

\* C3: a rebuild that an upstream failure aborts leaves the mapping as it was
\* when the rebuild started.
C3_RaiseKeepsMapping ==
    [][\A t \in Threads :
          (pc[t] # "raised" /\ pc'[t] = "raised") =>
              standings_cache' = loc'[t].before]_vars

\* C4: at most one rebuild is in flight at any time.
C4_OneRebuildAtATime ==
    Cardinality({t \in Threads : InRebuild(pc[t])}) <= 1

\* C5: a lookup whose key is not in the mapping answers with an empty
\* sequence and no error, whatever the state of the cache.
C5_UnknownKeyEmpty ==
    [][\A s \in LookupSeasons, c \in LookupCategories :
          (api_standings(s, c) /\ KeyStr(s, c) \notin DOMAIN standings_cache) =>
              response' = [status |-> "ok", rows |-> <<>>]]_vars

\* an empty answer was given while a rebuild had stored some keys, the key
\* "s99__c1" not being one of them
C5_Witness ==
    /\ response = [status |-> "ok", rows |-> <<>>]
    /\ \E t \in Threads : pc[t] = "build"
    /\ standings_cache # EmptyCache
    /\ KeyStr("s99", "c1") \notin DOMAIN standings_cache

\* C14: a 404 of the events endpoint is an empty event list and not an error:
\* a scan step on such a season does not raise, and goes on to the next older
\* season when there is one.
C14_NotFoundIsNoEvents ==
    [][\A t \in Threads :
          (/\ ScanStep(t, TRUE)
           /\ events_cfg[ValidSeasons[loc[t].i].id] = "404") =>
              /\ fetch_events(events_cfg, ValidSeasons[loc[t].i].id) = <<>>
              /\ pc'[t] # "raised"
              /\ loc[t].i < Len(ValidSeasons) =>
                    (pc'[t] = "scan" /\ loc'[t].i = loc[t].i + 1)]_vars

\* the scan passed the 404 of season 2025 and took 2024 as the cutoff
C14_Witness ==
    /\ events_cfg["s25"] = "404"
    /\ \E t \in Threads : pc[t] = "build" /\ loc[t].max_year = 2024

\* C15: load_cache takes the snapshot of the store if the store yields one,
\* else that of the file if the file is readable, and the loaded snapshot
\* becomes the cache with no rebuild; it enters the rebuild only when neither
\* yields one.
C15_LoadOrder ==
    [][\A t \in Threads, a \in BOOLEAN :
          ((\E b \in BOOLEAN : LoadSnapshot(t, a, b)) \/ LoadRebuild(t, a)) =>
              LET fromStore == IF a /\ redis_doc.present THEN redis_doc.doc
                               ELSE EmptyCache
              IN  IF fromStore # EmptyCache
                  THEN pc'[t] = "loaded" /\ standings_cache' = fromStore
                  ELSE IF file_doc.state = "ok"
                  THEN pc'[t] = "loaded" /\ standings_cache' = file_doc.doc
                  ELSE pc'[t] = "rebuild" /\ standings_cache' = standings_cache]_vars

\* the store and the file held different snapshots and the store's was loaded
C15_Witness ==
    /\ pc[MainThread] = "loaded"
    /\ redis_doc.present
    /\ file_doc.state = "ok"
    /\ file_doc.doc # redis_doc.doc
    /\ standings_cache = redis_doc.doc
    /\ \A t \in Threads \ {MainThread} : pc[t] = "idle"

\* the first year with sprint races, and the placeholder "-" of a column
\* that is numeric otherwise
SprintYear == 2023

Placeholder == 0 - 2

\* sprint scoring applies to the pair p = <<season_id, cat_id>>
SprintApplies(p) ==
    LET season == CHOOSE x \in Range(UpstreamSeasons) : x.id = p[1]
        cats == UpstreamCategories(p[1])
        category == CHOOSE c \in Range(cats) : c.id = p[2]
    IN  season.year >= SprintYear /\ category.name = "MotoGP"

\* C16: the rows a rebuild stores for a season and category to which sprint
\* scoring does not apply hold the placeholder in SPR and in RAC.
C16_PlaceholderWhenNotApplicable ==
    [][\A t \in Threads :
          \A data \in UNION {FullStandingsNow[events_cfg][p] : p \in AllPairs} :
              (/\ BuildStep(t, data)
               /\ ~SprintApplies(KeysTable[loc[t].max_year][loc[t].k])) =>
                  \A i \in 1..Len(data) :
                      data[i].SPR = Placeholder /\ data[i].RAC = Placeholder]_vars

\* the years of the seasons that have finished events upstream
YearsWithEvents ==
    {x.year : x \in {y \in Range(UpstreamSeasons) :
                        HasYear(y) /\ events_cfg[y.id] = "some"}}

\* the keys of season_id that the mapping holds
KeysOfSeason(cache, season_id) ==
    {k \in DOMAIN cache : \E c \in {"c1", "c2"} : k = KeyStr(season_id, c)}

\* C18: the cutoff is the greatest year of a season with finished events;
\* when a rebuild completes, every season up to the cutoff has a key for each
\* of its categories and no later season has any key.
C18_CutoffRule ==
    [][\A t \in Threads :
          (pc[t] = "save" /\ pc'[t] = "done") =>
              \E cutoff \in YearsWithEvents :
                  /\ \A y \in YearsWithEvents : y <= cutoff
                  /\ loc[t].max_year = cutoff
                  /\ \A x \in {y \in Range(UpstreamSeasons) : HasYear(y)} :
                        IF x.year <= cutoff
                        THEN \A c \in Range(UpstreamCategories(x.id)) :
                                 KeyStr(x.id, c.id) \in DOMAIN standings_cache'
                        ELSE KeysOfSeason(standings_cache', x.id) = {}]_vars

\* C19: every row a lookup returns carries the flag under Country and none
\* under the legacy name CountryFlag, and the lookup does not fail, whichever
\* rows of the loaded snapshot are legacy.
C19_LegacyNormalized ==
    [][\A s \in LookupSeasons, c \in LookupCategories :
          api_standings(s, c) =>
              /\ response'.status = "ok"
              /\ \A i \in 1..Len(response'.rows) :
                    /\ "Country" \in DOMAIN response'.rows[i]
                    /\ "CountryFlag" \notin DOMAIN response'.rows[i]]_vars

\* C21: a lookup is a pure read: it leaves the mapping and every row stored
\* in it unchanged, also for a snapshot loaded with legacy field names.
C21_LookupPureRead ==
    [][\A s \in LookupSeasons, c \in LookupCategories :
          api_standings(s, c) => standings_cache' = standings_cache]_vars

\* data is what get_full_standings returns for the pair p when the sessions
\* call of the season's event fails: the season has an event with scoring
\* sessions, and the rows carry no aggregate of them
ListingFailed(p, data) ==
    /\ fetch_events(events_cfg, p[1]) # <<>>
    /\ fetch_sessions(UpstreamSessions(p[1], p[2])) # <<>>
    /\ UpstreamStandings(p[1], p[2], 2) # <<>>
    /\ data = AssembleRows(UpstreamStandings(p[1], p[2], 2), [r \in {} |-> EmptyDict])

\* C22: a failed upstream call of a rebuild, in particular a failed sessions
\* listing of one event, aborts the rebuild: nothing is stored for the pair
\* and the rebuild ends with the error.
C22_ListingFailureAborts ==
    [][\A t \in Threads :
          \A data \in UNION {FullStandingsNow[events_cfg][p] : p \in AllPairs} :
              (/\ BuildStep(t, data)
               /\ ListingFailed(KeysTable[loc[t].max_year][loc[t].k], data)) =>
                  pc'[t] = "raised" /\ standings_cache' = standings_cache]_vars

C24_StoreFailureNotFatal ==
    [][\A t \in Threads :
          /\ SaveStep(t, FALSE) =>
                /\ pc'[t] = "done"
                /\ standings_cache' = standings_cache
                /\ redis_doc' = redis_doc
          /\ (\E b \in BOOLEAN : LoadSnapshot(t, FALSE, b)) =>
                /\ file_doc.state = "ok"
                /\ pc'[t] = "loaded"
                /\ standings_cache' = file_doc.doc
          /\ LoadSnapshot(t, FALSE, FALSE) => redis_doc' = redis_doc
          /\ LoadRebuild(t, FALSE) =>
                /\ file_doc.state # "ok"
                /\ pc'[t] = "rebuild"
                /\ standings_cache' = standings_cache]_vars

\* the store held a snapshot but failed on the read and on the write: the
\* file's snapshot was loaded and the store still holds its own
C24_Witness ==
    /\ pc[MainThread] = "loaded"
    /\ \A t \in Threads \ {MainThread} : pc[t] = "idle"
    /\ redis_doc.present
    /\ redis_doc.doc = OldSnapshot
    /\ file_doc.doc = LegacySnapshot
    /\ standings_cache = LegacySnapshot

\* load_cache takes the file branch: the store yields no snapshot (it holds
\* none, or the read fails) and the file's snapshot is loaded
LoadedFromFile(t, redis_ok, save_ok) ==
    /\ LoadSnapshot(t, redis_ok, save_ok)
    /\ ~(redis_ok /\ redis_doc.present)

C13_KeyRoundTrip ==
    key_pc = "done" => key_parts = <<key_ids[1], key_ids[2]>>

====
